---- MODULE Spec2Model ----
(* A model of the chess rules engine: abstract_types.py (Color, Direction),   *)
(* objects.py (Board, the six piece kinds, Player, follow_direction) and      *)
(* game_engine.py (run_chess, take_turn, the validators, get_legal_moves,     *)
(* move_piece, apply_effects, promote_piece, move_escapes_check).             *)
(* Python lists are sequences; the board is the list of rows                  *)
(* board[length_index][width_index] with 0-based indices shifted to 1-based  *)
(* sequence indices. A piece object is a record; its identity (the Python     *)
(* object) is the field id.                                                   *)
EXTENDS Integers, Sequences, FiniteSets, TLC

(***************************************************************************)
(* abstract_types.py                                                       *)
(***************************************************************************)
white == 1
black == -1

Direction(dx, dy) ==
    [x |-> dx, y |-> dy, is_capture_direction |-> TRUE,
     must_capture |-> FALSE, reach |-> 0]

DirectionAdd(a, b) == Direction(a.x + b.x, a.y + b.y)

DirectionMul(a, n) == Direction(a.x * n, a.y * n)

UP == Direction(0, 1)
DOWN == DirectionMul(UP, -1)
RIGHT == Direction(1, 0)
LEFT == DirectionMul(RIGHT, -1)

(***************************************************************************)
(* objects.py: the direction families                                      *)
(***************************************************************************)
OrthogonalDirections == <<UP, DOWN, RIGHT, LEFT>>

DiagonalDirections ==
    <<DirectionAdd(UP, RIGHT), DirectionAdd(UP, LEFT),
      DirectionAdd(DOWN, RIGHT), DirectionAdd(DOWN, LEFT)>>

JumpDirections ==
    <<DirectionAdd(DirectionAdd(UP, UP), RIGHT),
      DirectionAdd(DirectionAdd(UP, UP), LEFT),
      DirectionAdd(DirectionAdd(DOWN, DOWN), RIGHT),
      DirectionAdd(DirectionAdd(DOWN, DOWN), LEFT),
      DirectionAdd(DirectionAdd(LEFT, LEFT), UP),
      DirectionAdd(DirectionAdd(LEFT, LEFT), DOWN),
      DirectionAdd(DirectionAdd(RIGHT, RIGHT), UP),
      DirectionAdd(DirectionAdd(RIGHT, RIGHT), DOWN)>>

(***************************************************************************)
(* objects.py: pieces                                                      *)
(***************************************************************************)
\* str.upper() on the piece symbols
upper(s) ==
    CASE s = "p" -> "P" [] s = "r" -> "R" [] s = "n" -> "N"
      [] s = "b" -> "B" [] s = "k" -> "K" [] s = "q" -> "Q"
      [] OTHER -> s

\* AbstractPiece.change_reach on a direction list
SetReach(directions, new_reach) ==
    [i \in 1..Len(directions) |-> [directions[i] EXCEPT !.reach = new_reach]]

change_reach(piece, new_reach) ==
    [piece EXCEPT !.directions = SetReach(piece.directions, new_reach)]

\* The dataclass constructor followed by AbstractPiece.__post_init__
AbstractPiece(kind, color, symbol, directions) ==
    [kind |-> kind,
     color |-> color,
     symbol |-> IF color = white THEN upper(symbol) ELSE symbol,
     directions |-> [i \in 1..Len(directions) |->
                        [directions[i] EXCEPT !.y = @ * color]],
     has_moved |-> FALSE,
     id |-> 0]

PawnDirections ==
    <<[x |-> 0, y |-> 1, is_capture_direction |-> FALSE,
       must_capture |-> FALSE, reach |-> 2],
      [x |-> 1, y |-> 1, is_capture_direction |-> TRUE,
       must_capture |-> TRUE, reach |-> 1],
      [x |-> -1, y |-> 1, is_capture_direction |-> TRUE,
       must_capture |-> TRUE, reach |-> 1]>>

Pawn(color) == AbstractPiece("Pawn", color, "p", PawnDirections)

Rook(color) == AbstractPiece("Rook", color, "r", OrthogonalDirections)

Knight(color) ==
    change_reach(AbstractPiece("Knight", color, "n", JumpDirections), 1)

Bishop(color) == AbstractPiece("Bishop", color, "b", DiagonalDirections)

King(color) ==
    change_reach(AbstractPiece("King", color, "k",
                               DiagonalDirections \o OrthogonalDirections), 1)

Queen(color) ==
    AbstractPiece("Queen", color, "q",
                  DiagonalDirections \o OrthogonalDirections)

\* piece_type(color) for a class object named by its kind
Construct(kind, color) ==
    CASE kind = "Pawn" -> Pawn(color)
      [] kind = "King" -> King(color)
      [] kind = "Queen" -> Queen(color)
      [] kind = "Rook" -> Rook(color)
      [] kind = "Knight" -> Knight(color)
      [] kind = "Bishop" -> Bishop(color)

(***************************************************************************)
(* objects.py: the Direction objects behind the pieces. A store is the     *)
(* sequence of all Direction objects created so far, an object's identity  *)
(* its index in the store; a list of Direction objects is a sequence of    *)
(* identities.                                                             *)
(***************************************************************************)
\* The objects the three module-level lists hold after import
ModuleObjects == OrthogonalDirections \o DiagonalDirections \o JumpDirections

OrthogonalRefs == [i \in 1..Len(OrthogonalDirections) |-> i]

DiagonalRefs ==
    [i \in 1..Len(DiagonalDirections) |-> Len(OrthogonalDirections) + i]

JumpRefs ==
    [i \in 1..Len(JumpDirections) |->
        Len(OrthogonalDirections) + Len(DiagonalDirections) + i]

\* The values of the objects of a list
Deref(store, refs) == [i \in 1..Len(refs) |-> store[refs[i]]]

\* Mutation: the list is copied, its Direction objects are not
deepcopy_of_list_only(store, refs) == [store |-> store, refs |-> refs]

\* copy.deepcopy of a list of distinct Direction objects
deepcopy(store, refs) ==
    [store |-> store \o Deref(store, refs),
     refs |-> [i \in 1..Len(refs) |-> Len(store) + i]]

\* A list of newly made Direction objects (Pawn's default_factory)
NewDirections(store, directions) ==
    [store |-> store \o directions,
     refs |-> [i \in 1..Len(directions) |-> Len(store) + i]]

default_factory(store, kind) ==
    CASE kind = "Pawn" -> NewDirections(store, PawnDirections)
      [] kind = "Rook" -> deepcopy(store, OrthogonalRefs)
      [] kind = "Knight" -> deepcopy(store, JumpRefs)
      [] kind = "Bishop" -> deepcopy(store, DiagonalRefs)
      [] kind = "King" -> deepcopy(store, DiagonalRefs \o OrthogonalRefs)
      [] kind = "Queen" -> deepcopy(store, DiagonalRefs \o OrthogonalRefs)

\* The loop of AbstractPiece.__post_init__ over self.directions
mirror(store, refs, color) ==
    [i \in 1..Len(store) |->
        IF \E j \in 1..Len(refs) : refs[j] = i
        THEN [store[i] EXCEPT !.y = @ * color]
        ELSE store[i]]

\* AbstractPiece.change_reach on the objects of self.directions
store_reach(store, refs, new_reach) ==
    [i \in 1..Len(store) |->
        IF \E j \in 1..Len(refs) : refs[j] = i
        THEN [store[i] EXCEPT !.reach = new_reach]
        ELSE store[i]]

\* __post_init__ of the piece classes on the list d the default_factory made
post_init(d, kind, color) ==
    [store |-> IF kind \in {"King", "Knight"}
               THEN store_reach(mirror(d.store, d.refs, color), d.refs, 1)
               ELSE mirror(d.store, d.refs, color),
     piece |-> [kind |-> kind, color |-> color, directions |-> d.refs]]

\* piece_type(color) with the Direction objects it makes and changes
NewPiece(store, kind, color) ==
    post_init(default_factory(store, kind), kind, color)

\* returns.maybe.Nothing; Some(piece) is the piece record itself
Nothing == [kind |-> "Nothing"]

(***************************************************************************)
(* objects.py: Board                                                       *)
(***************************************************************************)
width == 8
length == 8

index_within_board(position) ==
    /\ Len(position) = 2
    /\ 1 <= position[1] /\ position[1] <= 8
    /\ 1 <= position[2] /\ position[2] <= length

\* (width_index, length_index), both 0-based
point_to_index(position) == <<position[1] - 1, length - position[2]>>

index_to_point(index) == <<index[1] + 1, length - index[2]>>

\* The result of an operation that raised instead of returning
ValueError == [kind |-> "ValueError"]

\* Mutation: no bounds check, the list indices wrap around as negative
\* indices of a Python list do
get_wrapping(board, position) ==
    LET ix == point_to_index(position)
    IN board[(ix[2] % length) + 1][(ix[1] % width) + 1]

get(board, position) ==
    IF ~index_within_board(position) THEN ValueError
    ELSE LET ix == point_to_index(position) IN board[ix[2] + 1][ix[1] + 1]

\* Mutation: the rank is not counted from the far side of the board
update_square_unflipped(board, new_value, position) ==
    IF ~index_within_board(position) THEN ValueError
    ELSE [board EXCEPT ![position[2]][position[1]] = new_value]

update_square(board, new_value, position) ==
    IF ~index_within_board(position) THEN ValueError
    ELSE LET ix == point_to_index(position)
         IN [board EXCEPT ![ix[2] + 1][ix[1] + 1] = new_value]

is_empty_square(board, position) == get(board, position) = Nothing

\* str.isupper() and str.lower() on the layout characters
isupper(c) == c \in {"P", "R", "N", "B", "K", "Q"}

lower(c) ==
    CASE c = "P" -> "p" [] c = "R" -> "r" [] c = "N" -> "n"
      [] c = "B" -> "b" [] c = "K" -> "k" [] c = "Q" -> "q"
      [] OTHER -> c

string_to_piece(value) ==
    LET color == IF isupper(value) THEN white ELSE black
        v == lower(value)
    IN CASE v = "." -> Nothing
         [] v = "p" -> Pawn(color)
         [] v = "r" -> Rook(color)
         [] v = "n" -> Knight(color)
         [] v = "b" -> Bishop(color)
         [] v = "k" -> King(color)
         [] v = "q" -> Queen(color)
         [] OTHER -> ValueError

\* Each constructed piece is a new object: its identity is the index of the
\* layout character it was built from.
create_board(board_string) ==
    [h \in 1..length |->
        [w \in 1..width |->
            LET i == (h - 1) * width + w
                piece == string_to_piece(board_string[i])
            IN IF piece = Nothing THEN Nothing
               ELSE [piece EXCEPT !.id = i]]]

Repeat(c, n) == [i \in 1..n |-> c]

DefaultBoardString ==
    [i \in 1..16 |-> lower(<<"R", "N", "B", "Q", "K", "B", "N", "R",
                            "P", "P", "P", "P", "P", "P", "P", "P">>[i])]
    \o Repeat(".", 32)
    \o <<"P", "P", "P", "P", "P", "P", "P", "P",
         "R", "N", "B", "Q", "K", "B", "N", "R">>

(***************************************************************************)
(* objects.py: the move generator                                          *)
(***************************************************************************)
add_direction(a, b) == <<a[1] + b.x, a[2] + b.y>>

\* The while-loop of follow_direction; points and i are its locals.
\* follow_square is its body once the step to next is on the board and piece
\* is what board.get(next) returned.
RECURSIVE follow_loop(_, _, _, _, _, _, _, _, _)
\* Mutation: the colour of the piece met is not looked at
follow_square_any_colour(board, next, piece, direction, self_color, max_distance, is_capture_direction, must_capture, points, i) ==
    IF piece # Nothing
    THEN IF ~is_capture_direction
         THEN points
         ELSE Append(points, next)
    ELSE follow_loop(board, next, direction, self_color, max_distance,
                     is_capture_direction, must_capture,
                     IF ~must_capture THEN Append(points, next) ELSE points,
                     i + 1)

follow_square(board, next, piece, direction, self_color, max_distance, is_capture_direction, must_capture, points, i) ==
    IF piece # Nothing
    THEN IF piece.color = self_color \/ ~is_capture_direction
         THEN points
         ELSE Append(points, next)
    ELSE follow_loop(board, next, direction, self_color, max_distance,
                     is_capture_direction, must_capture,
                     IF ~must_capture THEN Append(points, next) ELSE points,
                     i + 1)

follow_step(board, next, direction, self_color, max_distance, is_capture_direction, must_capture, points, i) ==
    IF ~index_within_board(next) THEN points
    ELSE follow_square(board, next, get(board, next), direction, self_color,
                       max_distance, is_capture_direction, must_capture,
                       points, i)

follow_loop(board, position, direction, self_color, max_distance, is_capture_direction, must_capture, points, i) ==
    IF max_distance # 0 /\ i > max_distance THEN points
    ELSE follow_step(board, add_direction(position, direction), direction,
                     self_color, max_distance, is_capture_direction,
                     must_capture, points, i)

follow_direction(board, position, direction, self_color, max_distance, is_capture_direction, must_capture) ==
    follow_loop(board, position, direction, self_color, max_distance,
                is_capture_direction, must_capture, <<>>, 1)

\* The number of squares the loop of follow_direction has read from the
\* board when it returns, entered with counter i at position
RECURSIVE follow_count(_, _, _, _, _)
\* Mutation: the loop without the test of max_distance
follow_count_without_reach(board, position, direction, max_distance, i) ==
    IF ~index_within_board(add_direction(position, direction)) THEN i - 1
    ELSE IF get(board, add_direction(position, direction)) # Nothing THEN i
    ELSE follow_count(board, add_direction(position, direction), direction,
                      max_distance, i + 1)

follow_count(board, position, direction, max_distance, i) ==
    IF max_distance # 0 /\ i > max_distance THEN i - 1
    ELSE IF ~index_within_board(add_direction(position, direction)) THEN i - 1
    ELSE IF get(board, add_direction(position, direction)) # Nothing THEN i
    ELSE follow_count(board, add_direction(position, direction), direction,
                      max_distance, i + 1)

RECURSIVE movements_from(_, _, _, _, _)
movements_from(board, position, directions, color, k) ==
    IF k > Len(directions) THEN <<>>
    ELSE follow_direction(board, position, directions[k], color,
                          directions[k].reach,
                          directions[k].is_capture_direction,
                          directions[k].must_capture)
         \o movements_from(board, position, directions, color, k + 1)

get_movements(board, position, directions, color) ==
    movements_from(board, position, directions, color, 1)

get_capture_movements(piece, board, position, directions) ==
    get_movements(board, position,
                  SelectSeq(directions, LAMBDA d : d.is_capture_direction),
                  piece.color)

(***************************************************************************)
(* objects.py: Player and the check detector                               *)
(***************************************************************************)
\* The dataclass constructor followed by Player.__post_init__
Player(name, color) ==
    [name |-> name,
     color |-> color,
     check_mate |-> FALSE,
     king_position |-> IF color = white THEN <<5, 1>> ELSE <<5, 8>>]

ALL_PIECES == <<"Pawn", "King", "Queen", "Rook", "Knight", "Bishop">>

\* Mutation: the kind of the piece on a reached square is not compared
ProbeHits_any_kind(board, reached, piece, opp_color) ==
    \E j \in 1..Len(reached) :
       /\ get(board, reached[j]) # Nothing
       /\ get(board, reached[j]).color = opp_color

\* The inner loop of is_in_check over the squares one probe piece reaches
ProbeHits(board, reached, piece, opp_color) ==
    \E j \in 1..Len(reached) :
       /\ get(board, reached[j]) # Nothing
       /\ get(board, reached[j]).kind = piece.kind
       /\ get(board, reached[j]).color = opp_color

\* One kind-probe of is_in_check: the body of the loop over ALL_PIECES
ProbeWith(board, king_position, piece, opp_color) ==
    ProbeHits(board,
              get_capture_movements(piece, board, king_position,
                                    piece.directions),
              piece, opp_color)

KindProbe(board, king_position, piece_type, color, opp_color) ==
    ProbeWith(board, king_position, Construct(piece_type, color), opp_color)

\* The match statement of is_in_check: the colour of the king on the square,
\* white when the square holds no king
KingColor(square_value) ==
    IF square_value.kind = "King" /\ square_value.color = black
    THEN black ELSE white

CheckedFor(board, king_position, color) ==
    \E k \in 1..Len(ALL_PIECES) :
       KindProbe(board, king_position, ALL_PIECES[k], color,
                 IF color = black THEN white ELSE black)

is_in_check(board, king_position) ==
    CheckedFor(board, king_position, KingColor(get(board, king_position)))

(***************************************************************************)
(* game_engine.py: simulation, legality filter, move applier               *)
(***************************************************************************)
remove_piece(board, position) ==
    [square_value |-> get(board, position),
     board |-> update_square(board, Nothing, position)]

\* Mutation: what new_position held is not put back
ResetChanges_without_blocking_piece(board, blocking_piece, piece, new_position, old_position) ==
    update_square(remove_piece(board, new_position).board, piece,
                  old_position)

\* "Reset changes" of move_escapes_check on the simulated board
ResetChanges(board, blocking_piece, piece, new_position, old_position) ==
    update_square(
        update_square(remove_piece(board, new_position).board,
                      blocking_piece, new_position),
        piece, old_position)

\* Mutation: a king move is checked at the cached king position
CheckSimulation_at_cache(simulated, player, blocking_piece, piece, new_position, old_position) ==
    [escapes_check |-> ~is_in_check(simulated, player.king_position),
     board |-> ResetChanges(simulated, blocking_piece, piece, new_position,
                            old_position),
     player |-> IF piece.kind = "King"
                THEN [player EXCEPT !.king_position = old_position]
                ELSE player]

\* "Check simulation" and "Reset changes": simulated is the board with the
\* piece moved, blocking_piece what new_position held.
CheckSimulation(simulated, player, blocking_piece, piece, new_position, old_position) ==
    [escapes_check |->
        ~is_in_check(simulated,
                     IF piece.kind = "King" THEN new_position
                     ELSE player.king_position),
     board |-> ResetChanges(simulated, blocking_piece, piece, new_position,
                            old_position),
     player |-> IF piece.kind = "King"
                THEN [player EXCEPT !.king_position = old_position]
                ELSE player]

\* "Apply simulation changes" once new_position is emptied (r1)
ApplySimulation(r1, player, new_position, old_position) ==
    CheckSimulation(
        update_square(remove_piece(r1.board, old_position).board,
                      remove_piece(r1.board, old_position).square_value,
                      new_position),
        player, r1.square_value,
        remove_piece(r1.board, old_position).square_value,
        new_position, old_position)

\* board and player are the objects the call mutates; the result carries them
\* as the call leaves them.
move_escapes_check(board, player, new_position, old_position) ==
    ApplySimulation(remove_piece(board, new_position), player, new_position,
                    old_position)

\* The list comprehension of get_legal_moves: one move_escapes_check per raw
\* destination, each on the board and player the previous one left.
RECURSIVE filter_moves(_, _, _, _, _, _)
filter_step(r, legal_movements, position, k, legal_moves) ==
    IF r.escapes_check
    THEN filter_moves(r.board, r.player, legal_movements, position, k + 1,
                      Append(legal_moves, legal_movements[k]))
    ELSE filter_moves(r.board, r.player, legal_movements, position, k + 1,
                      legal_moves)

filter_moves(board, player, legal_movements, position, k, legal_moves) ==
    IF k > Len(legal_movements)
    THEN [legal_moves |-> legal_moves, board |-> board, player |-> player,
          raised |-> FALSE]
    ELSE filter_step(move_escapes_check(board, player, legal_movements[k],
                                        position),
                     legal_movements, position, k, legal_moves)

legal_moves_of(piece, board, position, player) ==
    IF piece = Nothing
    THEN [legal_moves |-> <<>>, board |-> board, player |-> player,
          raised |-> TRUE]
    ELSE filter_moves(board, player,
                      get_movements(board, position, piece.directions,
                                    piece.color),
                      position, 1, <<>>)

\* raised: board.get(position).unwrap() on an empty square
get_legal_moves(board, position, player) ==
    legal_moves_of(get(board, position), board, position, player)

PromotionKind(p) ==
    CASE lower(p) = "q" -> "Queen"
      [] lower(p) = "b" -> "Bishop"
      [] lower(p) = "r" -> "Rook"
      [] lower(p) = "n" -> "Knight"
      [] lower(p) = "p" -> "Pawn"

\* Mutation: every promotion builds a queen
promote_piece_to_queen(board, color, position, p, new_id) ==
    update_square(board, [Queen(color) EXCEPT !.id = new_id], position)

\* p is the accepted answer to the prompt; new_id the identity of the piece
\* the call constructs.
promote_piece(board, color, position, p, new_id) ==
    update_square(board,
                  [Construct(PromotionKind(p), color) EXCEPT !.id = new_id],
                  position)

\* Whether apply_effects reaches promote_piece for this piece and destination
reaches_promotion(moved_piece, new_position) ==
    /\ moved_piece.kind = "Pawn"
    /\ \/ moved_piece.color = black /\ new_position[2] = 1
       \/ moved_piece.color = white /\ new_position[2] = 8

\* The Pawn case of apply_effects: pawn.change_reach(1) mutates the piece
\* object, which the board holds at new_position.
pawn_effects(board, new_position, player, pawn, p, new_id) ==
    [board |-> IF reaches_promotion(pawn, new_position)
               THEN promote_piece(update_square(board, pawn, new_position),
                                  pawn.color, new_position, p, new_id)
               ELSE update_square(board, pawn, new_position),
     player |-> player]

\* Mutation: the pawn's reach is left as it was
apply_effects_keep_reach(board, position, new_position, player, moved_piece, p, new_id) ==
    IF moved_piece.kind = "Pawn"
    THEN pawn_effects(board, new_position, player, moved_piece, p, new_id)
    ELSE IF moved_piece.kind = "King"
    THEN [board |-> board,
          player |-> [player EXCEPT !.king_position = new_position]]
    ELSE [board |-> board, player |-> player]

apply_effects(board, position, new_position, player, moved_piece, p, new_id) ==
    IF moved_piece.kind = "Pawn"
    THEN pawn_effects(board, new_position, player,
                      change_reach(moved_piece, 1), p, new_id)
    ELSE IF moved_piece.kind = "King"
    THEN [board |-> board,
          player |-> [player EXCEPT !.king_position = new_position]]
    ELSE [board |-> board, player |-> player]

\* move_piece after board.update_square(square_value, new_position)
move_removed(r, position, new_position, player, p, new_id) ==
    apply_effects(r.board, position, new_position, player, r.square_value, p,
                  new_id)

move_piece(board, position, new_position, player, p, new_id) ==
    move_removed(remove_piece(update_square(board, get(board, position),
                                            new_position),
                              position),
                 position, new_position, player, p, new_id)

update_captured_pieces(captured_piece, captured_pieces, player) ==
    IF captured_piece.color = white
    THEN [captured_pieces EXCEPT ![black] = Append(@, captured_piece)]
    ELSE [captured_pieces EXCEPT ![white] = Append(@, captured_piece)]

(***************************************************************************)
(* game_engine.py: validators and checkmate                                *)
(***************************************************************************)
\* validate_piece_to_move once get_legal_moves has returned r
\* ok: Success or Failure; raised: the call raised instead of returning
piece_result(r) ==
    [ok |-> ~r.raised /\ r.legal_moves # <<>>, board |-> r.board,
     player |-> r.player, raised |-> r.raised]

\* A validator's Failure that is returned before get_legal_moves is called
Failure(board, player) ==
    [ok |-> FALSE, board |-> board, player |-> player, raised |-> FALSE]

validate_piece_to_move(position, board, player) ==
    IF ~index_within_board(position)
    THEN Failure(board, player)
    ELSE IF get(board, position) = Nothing
    THEN Failure(board, player)
    ELSE IF get(board, position).color # player.color
    THEN Failure(board, player)
    ELSE piece_result(get_legal_moves(board, position, player))

Contains(seq, e) == \E k \in 1..Len(seq) : seq[k] = e

\* Mutation: the destination is not looked up in the legal moves
place_result_any(position, r) ==
    [ok |-> ~r.raised /\ r.legal_moves # <<>>, board |-> r.board,
     player |-> r.player, raised |-> r.raised]

\* validate_place_to_move_to once get_legal_moves has returned r
place_result(position, r) ==
    [ok |-> /\ ~r.raised
            /\ r.legal_moves # <<>>
            /\ Contains(r.legal_moves, position),
     board |-> r.board, player |-> r.player, raised |-> r.raised]

validate_place_to_move_to(position, old_position, board, player) ==
    IF ~index_within_board(position)
    THEN Failure(board, player)
    ELSE place_result(position, get_legal_moves(board, old_position, player))

\* The loop of is_check_mate from the k-th player on; check_mate_body is its
\* body once is_in_check and get_legal_moves (r) have returned.
RECURSIVE check_mate_loop(_, _, _)
\* Mutation: a king that cannot move is mated whether or not it is in check
check_mate_body_no_moves(board, players, k, in_check, r) ==
    IF r.raised
    THEN [result |-> FALSE, board |-> board, players |-> players,
          raised |-> TRUE]
    ELSE IF r.legal_moves = <<>>
    THEN [result |-> TRUE, board |-> r.board,
          players |-> [players EXCEPT ![k] =
                          [r.player EXCEPT !.check_mate = TRUE]],
          raised |-> FALSE]
    ELSE check_mate_loop(r.board, [players EXCEPT ![k] = r.player], k + 1)

\* Mutation: the flag is set on the player after the one found mated
check_mate_body_flags_next(board, players, k, in_check, r) ==
    IF r.raised
    THEN [result |-> FALSE, board |-> board, players |-> players,
          raised |-> TRUE]
    ELSE IF in_check /\ r.legal_moves = <<>>
    THEN [result |-> TRUE, board |-> r.board,
          players |-> [players EXCEPT
                          ![k] = r.player,
                          ![(k % Len(players)) + 1].check_mate = TRUE],
          raised |-> FALSE]
    ELSE check_mate_loop(r.board, [players EXCEPT ![k] = r.player], k + 1)

check_mate_body(board, players, k, in_check, r) ==
    IF r.raised
    THEN [result |-> FALSE, board |-> board, players |-> players,
          raised |-> TRUE]
    ELSE IF in_check /\ r.legal_moves = <<>>
    THEN [result |-> TRUE, board |-> r.board,
          players |-> [players EXCEPT ![k] =
                          [r.player EXCEPT !.check_mate = TRUE]],
          raised |-> FALSE]
    ELSE check_mate_loop(r.board, [players EXCEPT ![k] = r.player], k + 1)

check_mate_loop(board, players, k) ==
    IF k > Len(players)
    THEN [result |-> FALSE, board |-> board, players |-> players,
          raised |-> FALSE]
    ELSE check_mate_body(board, players, k,
                         is_in_check(board, players[k].king_position),
                         get_legal_moves(board, players[k].king_position,
                                         players[k]))

is_check_mate(board, players) == check_mate_loop(board, players, 1)

(***************************************************************************)
(* game_engine.py: input parsing. A string is a sequence of characters.    *)
(***************************************************************************)
Alphabet ==
    <<"a", "b", "c", "d", "e", "f", "g", "h", "i", "j", "k", "l", "m", "n",
      "o", "p", "q", "r", "s", "t", "u", "v", "w", "x", "y", "z">>

Capitals ==
    <<"A", "B", "C", "D", "E", "F", "G", "H", "I", "J", "K", "L", "M", "N",
      "O", "P", "Q", "R", "S", "T", "U", "V", "W", "X", "Y", "Z">>

DigitChars == <<"0", "1", "2", "3", "4", "5", "6", "7", "8", "9">>

\* str.find for a one-character needle: the first 0-based index, -1 if none
find(string, ch) ==
    IF Contains(string, ch)
    THEN (CHOOSE i \in 1..Len(string) :
             /\ string[i] = ch
             /\ \A j \in 1..(i - 1) : string[j] # ch) - 1
    ELSE -1

\* str.lower()
str_lower(string) ==
    [i \in 1..Len(string) |->
        IF Contains(Capitals, string[i])
        THEN Alphabet[find(Capitals, string[i]) + 1]
        ELSE string[i]]

\* str.isdigit() and int() on one character
isdigit(ch) == Contains(DigitChars, ch)

int(ch) == find(DigitChars, ch)

\* returns.result: Success(value) and a Failure; sys.exit(0)
Success(value) == [ok |-> TRUE, value |-> value]

InputFailure == [ok |-> FALSE, value |-> <<>>]

SystemExit == [ok |-> FALSE, value |-> <<"exit">>]

check_input_string(input_string) ==
    IF str_lower(input_string) \in {<<"q", "u", "i", "t">>, <<"q">>,
                                    <<"e", "x", "i", "t">>}
    THEN SystemExit
    ELSE IF Len(input_string) # 2 THEN InputFailure
    ELSE IF ~isdigit(input_string[2]) THEN InputFailure
    ELSE Success(<<input_string[1], input_string[2]>>)

\* "abcdefgh"
FileLetters == SubSeq(Alphabet, 1, 8)

convert_input(player_input) ==
    IF ~Contains(FileLetters, player_input[1]) THEN InputFailure
    ELSE Success(<<find(FileLetters, str_lower(<<player_input[1]>>)[1]) + 1,
                   int(player_input[2])>>)

\* The pipeline of take_player_input up to the validator:
\* check_input_string, then bind(convert_input)
parse_input(input_string) ==
    IF check_input_string(input_string).ok
    THEN convert_input(check_input_string(input_string).value)
    ELSE check_input_string(input_string)

(***************************************************************************)
(* game_engine.py: run_chess                                               *)
(***************************************************************************)
VARIABLES
    board,            \* the Board object's list of rows
    players,          \* run_chess: players
    captured_pieces,  \* run_chess: captured_pieces
    check_mate,       \* run_chess: check_mate
    pc,               \* "take_turn" | "done" (run_chess returned) | "raised"
                      \* | "placed" (a direct update_square call returned)
    turn,             \* index in players of the for-loop's player
    old_position,     \* take_turn: old_position of the last committed move
    new_position,     \* take_turn: new_position of the last committed move
    promotion,        \* promote_piece: the accepted answer, "" when not asked
    next_id,          \* identity of the next piece object a promotion builds
    opening,          \* the opening line the inputs follow, 0 when none
    step,             \* number of moves of that line already played
    free_plies,       \* number of committed moves that were not a line's
    moved,            \* history: identities of the pieces move_piece has moved
    placed_value,     \* update_square: new_value of the last direct call
    direction_objects, \* the store of Direction objects
    piece_objects     \* the piece objects made from it, in order of creation

vars == <<board, players, captured_pieces, check_mate, pc, turn, old_position,
          new_position, promotion, next_id, opening, step, free_plies, moved,
          placed_value, direction_objects, piece_objects>>

\* Bound: committed moves whose input is not taken from an opening line
MaxFreePlies == 1

\* Input sequences the players may type, as <<old_position, new_position,
\* promotion answer>> per turn.
Move(x1, y1, x2, y2, answer) == << <<x1, y1>>, <<x2, y2>>, answer >>

Openings ==
    <<
       \* 1. e4 d6 2. Bb5+
       <<Move(5, 2, 5, 4, ""), Move(4, 7, 4, 6, ""),
         Move(6, 1, 2, 5, "")>>,
       \* 1. f3 e5 2. g4 Qh4#
       <<Move(6, 2, 6, 3, ""), Move(5, 7, 5, 5, ""),
         Move(7, 2, 7, 4, ""), Move(4, 8, 8, 4, "")>>,
       \* 1. e4 e5 2. Qh5 d6 3. Qxf7+ Kxf7
       <<Move(5, 2, 5, 4, ""), Move(5, 7, 5, 5, ""),
         Move(4, 1, 8, 5, ""), Move(4, 7, 4, 6, ""),
         Move(8, 5, 6, 7, ""), Move(5, 8, 6, 7, "")>>,
       \* 1. h4 g5 2. hxg5 h6 3. gxh6 a6 4. h7 a5, white to promote on g8
       <<Move(8, 2, 8, 4, ""), Move(7, 7, 7, 5, ""),
         Move(8, 4, 7, 5, ""), Move(8, 7, 8, 6, ""),
         Move(7, 5, 8, 6, ""), Move(1, 7, 1, 6, ""),
         Move(8, 6, 8, 7, ""), Move(1, 6, 1, 5, "")>>,
       \* 1. a3 h5 2. g4 hxg4 3. h3 gxh3 4. a4 h2 5. a5 hxg1=Q
       <<Move(1, 2, 1, 3, ""), Move(8, 7, 8, 5, ""),
         Move(7, 2, 7, 4, ""), Move(8, 5, 7, 4, ""),
         Move(8, 2, 8, 3, ""), Move(7, 4, 8, 3, ""),
         Move(1, 3, 1, 4, ""), Move(8, 3, 8, 2, ""),
         Move(1, 4, 1, 5, ""), Move(8, 2, 7, 1, "q")>>,
       \* 1. e3 a5 2. Qh5 Ra6 3. Qxa5 h5 4. h4 Rah6 5. Qxc7 f6 6. Qxd7+ Kf7
       \* 7. Qxb7 Qd3 8. Qxb8 Qh7 9. Qxc8 Kg6 10. Qe6
       <<Move(5, 2, 5, 3, ""), Move(1, 7, 1, 5, ""),
         Move(4, 1, 8, 5, ""), Move(1, 8, 1, 6, ""),
         Move(8, 5, 1, 5, ""), Move(8, 7, 8, 5, ""),
         Move(8, 2, 8, 4, ""), Move(1, 6, 8, 6, ""),
         Move(1, 5, 3, 7, ""), Move(6, 7, 6, 6, ""),
         Move(3, 7, 4, 7, ""), Move(5, 8, 6, 7, ""),
         Move(4, 7, 2, 7, ""), Move(4, 8, 4, 3, ""),
         Move(2, 7, 2, 8, ""), Move(4, 3, 8, 7, ""),
         Move(2, 8, 3, 8, ""), Move(6, 7, 7, 6, ""),
         Move(3, 8, 5, 6, "")>>
    >>

\* The strings typed at the two prompts: a character and a digit
TypedChars ==
    {Alphabet[i] : i \in 1..10} \cup {Capitals[i] : i \in 1..10}
    \cup {DigitChars[i] : i \in 1..10}

TypedStrings ==
    {<<ch, DigitChars[i]>> : ch \in TypedChars, i \in 1..10}

\* The positions the pipeline hands to the validators: x in 1..8 and
\* y = int(digit)
Inputs ==
    {parse_input(input_string).value :
        input_string \in {t \in TypedStrings : parse_input(t).ok}}

\* The answers promote_piece accepts that are typed: the lower-case letters
\* and one upper-case letter
PromotionInputs == {"q", "b", "r", "n", "p", "Q"}

\* The inputs explored: while the opening line has moves left a turn types
\* its next move; after that at most MaxFreePlies turns type anything. A game
\* that can take neither kind of turn is not followed further.
HasLineMove == opening # 0 /\ step < Len(Openings[opening])

OnLine(position, destination, answer) ==
    /\ HasLineMove
    /\ Openings[opening][step + 1] = <<position, destination, answer>>

Explored ==
    /\ pc = "take_turn"
    /\ IF HasLineMove THEN TRUE ELSE free_plies < MaxFreePlies

ExploredInput(k, input) ==
    IF HasLineMove THEN Openings[opening][step + 1][k] = input
    ELSE free_plies < MaxFreePlies

\* run_chess up to the loop, on the Board built from board_string
Start(board_string) ==
    /\ board = create_board(board_string)
    /\ players = <<Player("Player1", white), Player("Player2", black)>>
    /\ captured_pieces = [c \in {white, black} |-> <<>>]
    /\ check_mate = FALSE
    /\ pc = "take_turn"
    /\ turn = 1
    /\ old_position = <<0, 0>>
    /\ new_position = <<0, 0>>
    /\ promotion = ""
    /\ next_id = length * width + 1
    /\ step = 0
    /\ free_plies = 0
    /\ moved = {}
    /\ placed_value = Nothing
    /\ direction_objects = ModuleObjects
    /\ piece_objects = <<>>

\* chess.py: main has called run_chess(), which plays on the default Board()
Init ==
    /\ Start(DefaultBoardString)
    /\ opening \in 0..Len(Openings)

\* Mutation: the result of is_check_mate is dropped, the loop never breaks
Checked_no_break(captured, r, player) ==
    [captured_pieces |->
        IF captured # Nothing
        THEN update_captured_pieces(captured, captured_pieces, player)
        ELSE captured_pieces,
     board |-> r.board,
     players |-> r.players,
     check_mate |-> FALSE,
     raised |-> r.raised]

\* The state run_chess is in after take_turn committed position ->
\* destination on the board and player the validators left (v2), and
\* is_check_mate ran: captured is what the destination held, m what
\* move_piece left, r what is_check_mate returned.
Checked(captured, r, player) ==
    [captured_pieces |->
        IF captured # Nothing
        THEN update_captured_pieces(captured, captured_pieces, player)
        ELSE captured_pieces,
     board |-> r.board,
     players |-> r.players,
     check_mate |-> r.result,
     raised |-> r.raised]

Moved(captured, m, player) ==
    Checked(captured,
            is_check_mate(m.board, [players EXCEPT ![turn] = m.player]),
            player)

\* Mutation: the destination is read for the tally after move_piece
Commit_tally_after_move(position, destination, answer, v2) ==
    Moved(get(move_piece(v2.board, position, destination, v2.player, answer,
                         next_id).board, destination),
          move_piece(v2.board, position, destination, v2.player, answer,
                     next_id),
          v2.player)

Commit(position, destination, answer, v2) ==
    Moved(get(v2.board, destination),
          move_piece(v2.board, position, destination, v2.player, answer,
                     next_id),
          v2.player)

\* One iteration of the for-loop of run_chess with accepted inputs: take_turn
\* (both validators succeed, capture bookkeeping, move_piece) and
\* is_check_mate. The second validator's get_legal_moves does not depend on
\* the destination typed, so it is evaluated once per piece (glm).
TakeTurn(position) ==
    /\ Explored
    /\ ExploredInput(1, position)
    /\ \E v1 \in {validate_piece_to_move(position, board, players[turn])} :
       /\ v1.ok
       /\ \E glm \in {get_legal_moves(v1.board, position, v1.player)} :
          \E destination \in Inputs :
             /\ ExploredInput(2, destination)
             /\ index_within_board(destination)
             /\ \E v2 \in {place_result(destination, glm)} :
                /\ v2.ok
                /\ \E answer \in IF reaches_promotion(get(v2.board, position),
                                                      destination)
                                 THEN PromotionInputs ELSE {""} :
                   \E on_line \in {OnLine(position, destination, answer)} :
                      /\ IF HasLineMove THEN on_line
                         ELSE free_plies < MaxFreePlies
                      /\ \E c \in {Commit(position, destination, answer,
                                          v2)} :
                         /\ captured_pieces' = c.captured_pieces
                         /\ board' = c.board
                         /\ players' = c.players
                         /\ check_mate' = c.check_mate
                         /\ pc' = IF c.raised THEN "raised"
                                  ELSE IF c.check_mate THEN "done"
                                  ELSE "take_turn"
                         /\ turn' = IF c.raised \/ c.check_mate THEN turn
                                    ELSE (turn % Len(players)) + 1
                      /\ old_position' = position
                      /\ new_position' = destination
                      /\ promotion' = answer
                      /\ next_id' = IF answer # "" THEN next_id + 1
                                    ELSE next_id
                      /\ opening' = opening
                      /\ step' = IF on_line THEN step + 1 ELSE step
                      /\ free_plies' = IF on_line THEN free_plies
                                       ELSE free_plies + 1
                      /\ moved' = moved \cup {get(v2.board, position).id}
                      /\ placed_value' = placed_value
                      /\ direction_objects' = direction_objects
                      /\ piece_objects' = piece_objects

\* Destinations typed by mistake at the second prompt: the piece's own file
\* with any digit (rank 0 and 9 are off the board). Every rejected destination
\* on the board leaves the same state, as does every one off the board.
MistypedDestinations(position) == {d \in Inputs : d[1] = position[1]}

\* take_player_input prompts again: validate_piece_to_move returned a Failure
\* for position, or it returned Success and validate_place_to_move_to
\* a Failure for a mistyped destination. The state is left as the validator
\* calls left it.
Reprompt(position) ==
    /\ Explored
    /\ \E v1 \in {validate_piece_to_move(position, board, players[turn])} :
       IF ~v1.ok
       THEN /\ board' = v1.board
            /\ players' = [players EXCEPT ![turn] = v1.player]
       ELSE \E glm \in {get_legal_moves(v1.board, position, v1.player)} :
            \E destination \in MistypedDestinations(position) :
            \E v2 \in {IF index_within_board(destination)
                       THEN place_result(destination, glm)
                       ELSE Failure(v1.board, v1.player)} :
               /\ ~v2.ok
               /\ board' = v2.board
               /\ players' = [players EXCEPT ![turn] = v2.player]
    /\ UNCHANGED <<captured_pieces, check_mate, pc, turn, old_position,
                   new_position, promotion, next_id, opening, step,
                   free_plies, moved, placed_value, direction_objects,
                   piece_objects>>

Next ==
    \/ \E position \in Inputs : TakeTurn(position)
    \/ \E position \in Inputs : Reprompt(position)

Spec == Init /\ [][Next]_vars

(***************************************************************************)
(* Boards other than the default: run_chess(Board(board_string)) with the  *)
(* player typing only inputs that are rejected                             *)
(***************************************************************************)
\* Bound: the ranks of the window in which the probe layouts put a piece
ProbeRanks == 3

ProbeSquares == (3..7) \X (1..ProbeRanks)

ProbeChars == {"P", "R", "N", "B", "Q", "p", "r", "n", "b", "q"}

\* The squares the probe layouts put the black king on
ProbeKings == {<<5, 3>>, <<4, 2>>}

\* The index in a layout descriptor of the character for a position: rows from
\* rank 8 down, files a to h within a row
DescriptorIndex(position) == (8 - position[2]) * 8 + position[1]

\* The layout descriptor with the given <<character, position>> placements
Sparse(placements) ==
    [i \in 1..64 |->
        IF \E pl \in placements : DescriptorIndex(pl[2]) = i
        THEN (CHOOSE pl \in placements : DescriptorIndex(pl[2]) = i)[1]
        ELSE "."]

\* Hand-written layouts: a king in check away from its home square, a pawn
\* one step from promotion, and pieces pinned to their king
SpecialLayouts ==
    {Sparse({<<"K", <<1, 1>>>>, <<"r", <<1, 8>>>>, <<"k", <<8, 8>>>>}),
     Sparse({<<"K", <<5, 1>>>>, <<"P", <<1, 7>>>>, <<"k", <<5, 8>>>>}),
     Sparse({<<"K", <<5, 1>>>>, <<"R", <<5, 2>>>>, <<"r", <<5, 7>>>>,
             <<"k", <<8, 8>>>>}),
     Sparse({<<"K", <<5, 1>>>>, <<"Q", <<1, 4>>>>, <<"b", <<4, 7>>>>,
             <<"k", <<5, 8>>>>}),
     Sparse({<<"K", <<4, 1>>>>, <<"p", <<5, 2>>>>, <<"k", <<5, 3>>>>})}

\* A white king on e1, a black king on one of ProbeKings and at most one more
\* piece in the window; and the hand-written layouts
ProbeLayouts ==
    {Sparse({<<"K", <<5, 1>>>>, <<"k", t[1]>>} \cup t[2]) :
        t \in {u \in ProbeKings \X
                     ({{}} \cup {{<<ch, sq>>} : ch \in ProbeChars,
                                                 sq \in ProbeSquares}) :
                  \A pl \in u[2] : pl[2] \notin {<<5, 1>>, u[1]}}}
    \cup SpecialLayouts

\* A test has called run_chess(Board(board_string))
InitProbe ==
    /\ \E board_string \in ProbeLayouts : Start(board_string)
    /\ opening = 0

NextProbe == \E position \in Inputs : Reprompt(position)

SpecProbe == InitProbe /\ [][NextProbe]_vars

(***************************************************************************)
(* The Board object on its own: a test builds a Board and calls            *)
(* update_square on it once                                                *)
(***************************************************************************)
Squares == (1..width) \X (1..length)

\* The boards the test builds: the default one and one with three pieces in
\* the corners
BoardLayouts ==
    {DefaultBoardString,
     Sparse({<<"K", <<1, 1>>>>, <<"r", <<1, 8>>>>, <<"k", <<8, 8>>>>})}

InitBoard ==
    /\ \E board_string \in BoardLayouts : Start(board_string)
    /\ opening = 0

\* The layout characters whose pieces the test places
PlaceChars == {".", "Q", "p", "K"}

\* board.update_square(string_to_piece(value), position)
Place(value, position) ==
    /\ pc = "take_turn"
    /\ board' = update_square(board, string_to_piece(value), position)
    /\ placed_value' = string_to_piece(value)
    /\ new_position' = position
    /\ pc' = "placed"
    /\ UNCHANGED <<players, captured_pieces, check_mate, turn, old_position,
                   promotion, next_id, opening, step, free_plies, moved,
                   direction_objects, piece_objects>>

NextBoard ==
    \E value \in PlaceChars, position \in Squares : Place(value, position)

SpecBoard == InitBoard /\ [][NextBoard]_vars

(***************************************************************************)
(* The piece classes on their own: pieces are constructed, as              *)
(* string_to_piece, promote_piece and is_in_check construct them, and      *)
(* pawns have their reach changed, as apply_effects changes it             *)
(***************************************************************************)
\* Bound: the number of piece objects constructed
MaxObjects == 2

Kinds == {"Pawn", "King", "Queen", "Rook", "Knight", "Bishop"}

InitObjects ==
    /\ Start(DefaultBoardString)
    /\ opening = 0

ConstructPiece(kind, color) ==
    /\ Len(piece_objects) < MaxObjects
    /\ \E n \in {NewPiece(direction_objects, kind, color)} :
          /\ direction_objects' = n.store
          /\ piece_objects' = Append(piece_objects, n.piece)
    /\ UNCHANGED <<board, players, captured_pieces, check_mate, pc, turn,
                   old_position, new_position, promotion, next_id, opening,
                   step, free_plies, moved, placed_value>>

\* apply_effects on the k-th piece object
PawnChangesReach(k) ==
    /\ k <= Len(piece_objects)
    /\ piece_objects[k].kind = "Pawn"
    /\ direction_objects' =
          store_reach(direction_objects, piece_objects[k].directions, 1)
    /\ UNCHANGED <<board, players, captured_pieces, check_mate, pc, turn,
                   old_position, new_position, promotion, next_id, opening,
                   step, free_plies, moved, placed_value, piece_objects>>

NextObjects ==
    \/ \E kind \in Kinds, color \in {white, black} :
          ConstructPiece(kind, color)
    \/ \E k \in 1..MaxObjects : PawnChangesReach(k)

SpecObjects == InitObjects /\ [][NextObjects]_vars

(***************************************************************************)
(* Properties                                                              *)
(***************************************************************************)
Range(seq) == {seq[i] : i \in 1..Len(seq)}

KingSquares(b, color) ==
    {s \in Squares : get(b, s).kind = "King" /\ get(b, s).color = color}

\* C4: between operations each player's cached king position is the square
\* that holds the king of the player's colour, for a board built from any
\* layout descriptor with one king per colour.
C4_CacheIsKingSquare ==
    \A k \in 1..Len(players) :
       KingSquares(board, players[k].color) = {players[k].king_position}

\* C5: after any sequence of turns from the standard starting position the
\* board holds exactly one white king and exactly one black king.
C5_OneKingPerColour ==
    \A color \in {white, black} : Cardinality(KingSquares(board, color)) = 1

\* A game in which a capture and a promotion have been committed
C5_CapturedAndPromoted ==
    /\ promotion # ""
    /\ Len(captured_pieces[white]) + Len(captured_pieces[black]) >= 3
    /\ C5_OneKingPerColour

OwnSquares(b, color) ==
    {s \in Squares : get(b, s) # Nothing /\ get(b, s).color = color}

\* The raw move-generator destinations of the piece on s
RawMoves(b, s) == get_movements(b, s, get(b, s).directions, get(b, s).color)

\* C3: whichever piece of the player to move move_escapes_check simulates, to
\* whichever raw destination, the player's cached king position after the call
\* is the value it had before the call.
C3_CacheAsBeforeCall ==
    pc = "take_turn" =>
        \A P \in OwnSquares(board, players[turn].color) :
           \A D \in Range(RawMoves(board, P)) :
              move_escapes_check(board, players[turn], D,
                                 P).player.king_position
                 = players[turn].king_position

\* Whether is_check_mate's condition holds of the k-th player
InCheckWithoutKingMove(k) ==
    /\ is_in_check(board, players[k].king_position)
    /\ get_legal_moves(board, players[k].king_position,
                       players[k]).legal_moves = <<>>

\* C6: once is_check_mate has run, it has returned true and flagged a player
\* iff that player is the first in turn order who is in check at the cached
\* king position and whose king's square has no legal move; it has returned
\* false with no flag set when that holds of neither player. Moves of the
\* player's other pieces do not count.
C6_FlagIffInCheckWithoutKingMove ==
    pc \in {"take_turn", "done"} /\ moved # {} =>
        /\ check_mate = (\E k \in 1..Len(players) : InCheckWithoutKingMove(k))
        /\ (pc = "done") = check_mate
        /\ \A k \in 1..Len(players) :
              players[k].check_mate =
                 /\ InCheckWithoutKingMove(k)
                 /\ \A j \in 1..(k - 1) : ~InCheckWithoutKingMove(j)

\* A player is flagged although another of its pieces has a legal move
C6_FlaggedWithOtherMoves ==
    /\ pc = "done"
    /\ \E k \in 1..Len(players) :
          /\ players[k].check_mate
          /\ \E P \in OwnSquares(board, players[k].color) :
                get_legal_moves(board, P, players[k]).legal_moves # <<>>

Occupied(b) == {s \in Squares : get(b, s) # Nothing}

\* The square n steps along direction d from s
Along(s, d, n) == <<s[1] + n * d.x, s[2] + n * d.y>>

\* The pieces whose rays are cast from s: the piece standing there with its
\* own directions and, for a king, the six probe pieces of is_in_check
RayPieces(b, s) ==
    {get(b, s)} \cup
    IF get(b, s).kind = "King"
    THEN {Construct(ALL_PIECES[k], get(b, s).color) :
             k \in 1..Len(ALL_PIECES)}
    ELSE {}

\* The stop rule for the ray follow_direction casts for piece from s along d
RayStopsRight(b, s, piece, d, ray) ==
    \A i \in 1..Len(ray) :
       \E n \in 1..8 :
          /\ ray[i] = Along(s, d, n)
          /\ index_within_board(ray[i])
          /\ d.reach # 0 => n <= d.reach
          /\ \A m \in 1..(n - 1) : get(b, Along(s, d, m)) = Nothing
          /\ get(b, ray[i]) # Nothing =>
                /\ get(b, ray[i]).color # piece.color
                /\ d.is_capture_direction
                /\ i = Len(ray)

\* C8: every square follow_direction generates along a direction is on the
\* board, lies before or at the first occupied square of the ray, holds no
\* piece of the mover's colour, holds an enemy piece only if the direction is
\* capture-allowed and the square is the last of the ray, and is at most
\* reach steps from the origin when reach is not 0.
C8_RayStopRule ==
    \A s \in Occupied(board) :
       \A piece \in RayPieces(board, s) :
          \A k \in 1..Len(piece.directions) :
             RayStopsRight(board, s, piece, piece.directions[k],
                follow_direction(board, s, piece.directions[k], piece.color,
                                 piece.directions[k].reach,
                                 piece.directions[k].is_capture_direction,
                                 piece.directions[k].must_capture))

\* A ray of three squares or more ends on an enemy piece, and the ray of a
\* sliding piece is cut short by a piece of its own colour two steps away
C8_LongCaptureAndBlockedRay ==
    /\ \E s \in Occupied(board) :
          \E k \in 1..Len(get(board, s).directions) :
             LET d == get(board, s).directions[k]
                 ray == follow_direction(board, s, d, get(board, s).color,
                                         d.reach, d.is_capture_direction,
                                         d.must_capture)
             IN /\ Len(ray) >= 3
                /\ get(board, ray[Len(ray)]) # Nothing
    /\ \E s \in Occupied(board) :
          \E k \in 1..Len(get(board, s).directions) :
             LET d == get(board, s).directions[k]
                 ray == follow_direction(board, s, d, get(board, s).color,
                                         d.reach, d.is_capture_direction,
                                         d.must_capture)
             IN /\ d.reach = 0
                /\ Len(ray) = 1
                /\ index_within_board(Along(s, d, 2))
                /\ get(board, Along(s, d, 2)) # Nothing
                /\ get(board, Along(s, d, 2)).color = get(board, s).color

\* The pawn rule for the pawn standing on s
PawnRuleAt(b, s, pawn) ==
    LET f1 == <<s[1], s[2] + pawn.color>>
        f2 == <<s[1], s[2] + 2 * pawn.color>>
        diagonals == {<<s[1] + 1, s[2] + pawn.color>>,
                      <<s[1] - 1, s[2] + pawn.color>>}
    IN /\ ( /\ pawn.id \notin moved
            /\ index_within_board(f2)
            /\ get(b, f1) = Nothing
            /\ get(b, f2) = Nothing )
          => /\ Range(RawMoves(b, s))
                   = {f1, f2} \cup
                     {d \in diagonals : /\ index_within_board(d)
                                        /\ get(b, d) # Nothing
                                        /\ get(b, d).color # pawn.color}
             /\ Cardinality(Range(RawMoves(b, s))) = Len(RawMoves(b, s))
       /\ pawn.id \in moved => f2 \notin Range(RawMoves(b, s))

\* C9: a pawn that has never been moved and has the two squares ahead of it
\* empty generates exactly the one- and two-square forward destinations plus
\* each forward-diagonal square on which an enemy piece stands; a pawn that
\* has been moved generates no two-square advance in any later state.
C9_PawnRule ==
    \A s \in Occupied(board) :
       get(board, s).kind = "Pawn" => PawnRuleAt(board, s, get(board, s))

\* A moved pawn with two empty squares ahead, and an unmoved pawn with a clear
\* path and an enemy piece on a forward diagonal
C9_MovedPawnWithClearPath ==
    /\ \E s \in Occupied(board) :
          /\ get(board, s).kind = "Pawn"
          /\ get(board, s).id \in moved
          /\ index_within_board(<<s[1], s[2] + 2 * get(board, s).color>>)
          /\ get(board, <<s[1], s[2] + get(board, s).color>>) = Nothing
          /\ get(board, <<s[1], s[2] + 2 * get(board, s).color>>) = Nothing
    /\ \E s \in Occupied(board) :
          /\ get(board, s).kind = "Pawn"
          /\ get(board, s).id \notin moved
          /\ get(board, <<s[1], s[2] + get(board, s).color>>) = Nothing
          /\ get(board, <<s[1], s[2] + 2 * get(board, s).color>>) = Nothing
          /\ Len(RawMoves(board, s)) = 3

\* The piece kind a promotion answer names
ChosenKind(answer) ==
    CASE answer = "q" -> "Queen" [] answer = "b" -> "Bishop"
      [] answer = "r" -> "Rook" [] answer = "n" -> "Knight"
      [] answer = "p" -> "Pawn" [] answer = "Q" -> "Queen"

\* What a committed move old_position' -> new_position' does to the board
CommittedMoveEffect ==
    LET P == old_position'
        D == new_position'
        piece == get(board, P)
        placed == get(board', D)
    IN /\ \A s \in Squares \ {P, D} : get(board', s) = get(board, s)
       /\ get(board', P) = Nothing
       /\ IF /\ piece.kind = "Pawn"
             /\ D[2] = IF piece.color = white THEN 8 ELSE 1
          THEN /\ placed.kind = ChosenKind(promotion')
               /\ placed.color = piece.color
               /\ placed.id \notin {get(board, s).id : s \in Occupied(board)}
               /\ placed.id \notin moved
               /\ placed.directions
                     = Construct(placed.kind, placed.color).directions
          ELSE /\ placed.id = piece.id
               /\ placed.kind = piece.kind
               /\ placed.color = piece.color
               /\ promotion' = ""

\* C10: a committed move that puts a white pawn on rank 8 or a black pawn on
\* rank 1 leaves on the destination a newly constructed piece of the chosen
\* kind and the pawn's colour and changes no square but the two of the move;
\* any other committed move leaves the moved piece itself on the destination.
C10_Promotion ==
    [][<<step', free_plies'>> # <<step, free_plies>> => CommittedMoveEffect]_vars

\* A promotion to a piece other than a queen has been committed
C10_PromotedToChosenKind ==
    /\ promotion \notin {"", "q"}
    /\ get(board, new_position).kind = ChosenKind(promotion)
    /\ get(board, new_position).id = next_id - 1

\* The squares from which a piece of another colour than color reaches S with
\* its own capture-allowed move-generator destinations
Attackers(b, S, color) ==
    {A \in Occupied(b) :
        /\ get(b, A).color # color
        /\ S \in Range(get_capture_movements(get(b, A), b, A,
                                             get(b, A).directions))}

\* C7: for every square S holding a king, is_in_check(board, S) is true iff a
\* piece of the other colour stands on a square from which its own
\* capture-allowed move-generator destinations include S.
C7_CheckIffAttacked ==
    \A S \in Occupied(board) :
       get(board, S).kind = "King" =>
          is_in_check(board, S)
             = (Attackers(board, S, get(board, S).color) # {})

\* A king is in check from a pawn alone
C7_CheckFromPawn ==
    \E S \in Occupied(board) :
       /\ get(board, S).kind = "King"
       /\ is_in_check(board, S)
       /\ \A A \in Attackers(board, S, get(board, S).color) :
             get(board, A).kind = "Pawn"

\* C2: move_escapes_check, for every piece and each of its raw destinations,
\* and get_legal_moves, for every piece, leave all 64 squares of the board as
\* they found them, whatever the simulation finds.
C2_BoardAsBeforeCall ==
    \A k \in 1..Len(players) :
       \A P \in OwnSquares(board, players[k].color) :
          /\ \A D \in Range(RawMoves(board, P)) :
                move_escapes_check(board, players[k], D, P).board = board
          /\ get_legal_moves(board, P, players[k]).board = board

\* A piece has a capturing destination that the simulation rejects and an
\* empty destination that it accepts
C2_RejectedCaptureAcceptedStep ==
    \E P \in OwnSquares(board, players[turn].color) :
       /\ \E j \in 1..Len(RawMoves(board, P)) :
             /\ get(board, RawMoves(board, P)[j]) # Nothing
             /\ ~move_escapes_check(board, players[turn],
                                    RawMoves(board, P)[j], P).escapes_check
       /\ \E j \in 1..Len(RawMoves(board, P)) :
             /\ get(board, RawMoves(board, P)[j]) = Nothing
             /\ move_escapes_check(board, players[turn],
                                   RawMoves(board, P)[j], P).escapes_check

\* The k-th player with the cache on the square of the king of its colour
RightPlayer(k) ==
    [players[k] EXCEPT !.king_position =
        CHOOSE s \in KingSquares(board, players[k].color) : TRUE]

\* The answers the promotion prompt accepts when piece is moved to D
Answers(piece, D) ==
    IF reaches_promotion(piece, D) THEN PromotionInputs ELSE {""}

\* The king of the mover is not in check once move_piece has left m
KingSafe(m) == ~is_in_check(m.board, m.player.king_position)

\* The legality filter for the piece on P, legal being what get_legal_moves
\* returned for it
FilterRight(b, P, player, legal) ==
    /\ \A D \in Range(legal) :
          \A answer \in Answers(get(b, P), D) :
             KingSafe(move_piece(b, P, D, player, answer, next_id))
    /\ \A D \in Range(RawMoves(b, P)) :
          move_escapes_check(b, player, D, P).escapes_check
             => Contains(legal, D)

\* C1: with the mover's cached king position on the square of its king, for
\* every own piece at P, no destination get_legal_moves returns leaves the
\* mover's king in check once committed with move_piece, whatever the
\* promotion answer, and every raw destination whose simulation finds no
\* check is returned.
C1_LegalMovesKeepKingSafe ==
    \A k \in 1..Len(players) :
       \A P \in OwnSquares(board, players[k].color) :
          FilterRight(board, P, RightPlayer(k),
                      get_legal_moves(board, P, RightPlayer(k)).legal_moves)

\* A piece other than the king has raw destinations of which some are returned
\* and some are not, and the king has a raw destination that is not returned
C1_SomeReturnedSomeNot ==
    \E k \in 1..Len(players) :
       /\ \E P \in OwnSquares(board, players[k].color) :
             /\ get(board, P).kind # "King"
             /\ Len(get_legal_moves(board, P, RightPlayer(k)).legal_moves) > 0
             /\ Len(get_legal_moves(board, P, RightPlayer(k)).legal_moves)
                   < Len(RawMoves(board, P))
       /\ \E P \in KingSquares(board, players[k].color) :
             Len(get_legal_moves(board, P, RightPlayer(k)).legal_moves)
                < Len(RawMoves(board, P))

\* What C11 says of one validator result v for the player to move: it was
\* returned, not raised, it is a Failure when the input is in error, and the
\* board and the player's cached king position are as before the call.
ValidatorKeepsState(v, in_error) ==
    /\ ~v.raised
    /\ in_error => ~v.ok
    /\ v.board = board
    /\ v.player.king_position = players[turn].king_position

\* The user-input errors of the first prompt
PieceInputError(position) ==
    \/ ~index_within_board(position)
    \/ get(board, position) = Nothing
    \/ get(board, position).color # players[turn].color
    \/ get_legal_moves(board, position, players[turn]).legal_moves = <<>>

\* What C11 says of the second prompt after position was accepted with v1,
\* glm being what get_legal_moves returns for the piece
PlaceValidatorKeepsState(v1, glm) ==
    \A destination \in Inputs :
       ValidatorKeepsState(
          IF index_within_board(destination)
          THEN place_result(destination, glm)
          ELSE Failure(v1.board, v1.player),
          ~index_within_board(destination)
             \/ ~Contains(glm.legal_moves, destination))

PieceValidatorKeepsState(position, v1) ==
    /\ ValidatorKeepsState(v1, PieceInputError(position))
    /\ v1.ok => PlaceValidatorKeepsState(
                   v1, get_legal_moves(v1.board, position, v1.player))

\* C11: for every input of the player to move, validate_piece_to_move and
\* validate_place_to_move_to return (never raise), return a Failure for each
\* user-input error, and leave the board and the cached king positions as
\* they were before the call.
C11_ValidatorsKeepState ==
    pc = "take_turn" =>
        \A position \in Inputs :
           PieceValidatorKeepsState(
              position,
              validate_piece_to_move(position, board, players[turn]))

\* Coordinates on the board and up to three off it on either side
Coordinates == (-2)..11

OnBoard(position) == position[1] \in 1..8 /\ position[2] \in 1..8

\* C12: index_within_board is true exactly for the positions with both
\* components in 1..8; for every other position, 0 and negative components
\* included, Board.get and Board.update_square raise and produce no changed
\* board, and for a position on the board they do not raise.
C12_OffBoardRaises ==
    \A position \in Coordinates \X Coordinates :
       /\ index_within_board(position) = OnBoard(position)
       /\ (get(board, position) = ValueError) = ~OnBoard(position)
       /\ \A new_value \in {Nothing, Queen(white)} :
             (update_square(board, new_value, position) = ValueError)
                = ~OnBoard(position)

\* A game is under way and the positions (0, 1) and (1, 9), which would wrap
\* around to h1 and a1, are asked for while pieces stand on h1 and a1
C12_WrapWouldHitPiece ==
    /\ moved # {}
    /\ get(board, <<8, 1>>) # Nothing
    /\ get(board, <<1, 1>>) # Nothing
    /\ get(board, <<0, 1>>) = ValueError
    /\ get(board, <<1, 9>>) = ValueError

\* C13: at a prompt, a letter a-h in either case followed by a digit 1-8 is
\* parsed by check_input_string and convert_input to the position (index of
\* the letter in a..h plus 1, digit value); every other first character
\* yields a Failure.
C13_FileLetterAnyCase ==
    pc = "take_turn" =>
    \A d \in 1..8 :
       /\ \A i \in 1..8 :
             /\ parse_input(<<Alphabet[i], DigitChars[d + 1]>>)
                   = Success(<<i, d>>)
             /\ parse_input(<<Capitals[i], DigitChars[d + 1]>>)
                   = Success(<<i, d>>)
       /\ \A ch \in TypedChars :
             (~Contains(SubSeq(Alphabet, 1, 8), ch)
                 /\ ~Contains(SubSeq(Capitals, 1, 8), ch))
             => ~parse_input(<<ch, DigitChars[d + 1]>>).ok

\* point_to_index is injective on the 64 positions and index_to_point is its
\* inverse
IndexMapsInverse ==
    /\ \A P \in Squares : \A Q \in Squares :
          point_to_index(P) = point_to_index(Q) => P = Q
    /\ \A P \in Squares :
          /\ point_to_index(P) \in (0..7) \X (0..7)
          /\ index_to_point(point_to_index(P)) = P
    /\ \A index \in (0..7) \X (0..7) :
          point_to_index(index_to_point(index)) = index

\* What a call update_square(placed_value', new_position') does to the gets
RoundTrip ==
    /\ get(board', new_position') = placed_value'
    /\ \A Q \in Squares \ {new_position'} : get(board', Q) = get(board, Q)

\* C14: update_square(v, P) followed by get(P) returns v, and get(Q) for
\* every other position Q returns what it returned before; point_to_index is
\* injective on the 64 positions and index_to_point is its inverse.
C14_GetSetRoundTrip ==
    [][pc' = "placed" => RoundTrip /\ IndexMapsInverse]_vars

\* A piece has been written over the piece on d8
C14_PieceOverwritten ==
    /\ pc = "placed"
    /\ get(board, new_position) = placed_value
    /\ placed_value # Nothing
    /\ new_position = <<4, 8>>

\* The pieces in the two tallies
Tally(captured) == captured[white] \o captured[black]

\* Pieces on the board plus pieces in the tallies, and no piece counted twice
Conserved(b, captured) ==
    /\ Cardinality(Occupied(b)) + Len(Tally(captured)) = 32
    /\ \A i \in 1..Len(Tally(captured)) :
          /\ \A j \in 1..Len(Tally(captured)) :
                Tally(captured)[i].id = Tally(captured)[j].id => i = j
          /\ \A s \in Occupied(b) : get(b, s).id # Tally(captured)[i].id

\* What a committed move old_position' -> new_position' does to the tallies:
\* the piece that stood on new_position before the move is appended to one
\* tally, nothing is appended when the square was empty
TallyEffect ==
    IF get(board, new_position') = Nothing
    THEN captured_pieces' = captured_pieces
    ELSE \E color \in {white, black} :
            captured_pieces' =
               [captured_pieces EXCEPT
                   ![color] = Append(@, get(board, new_position'))]

\* C15: in every turn of a game from the standard start the occupant of the
\* destination, as it stood before the moving piece was relocated, is
\* recorded once in a tally, and before and after every turn the pieces on
\* the board plus the pieces in the two tallies number 32.
C15_CapturesConserved ==
    [][/\ Conserved(board, captured_pieces)
       /\ Conserved(board', captured_pieces')
       /\ <<step', free_plies'>> # <<step, free_plies>> => TallyEffect]_vars

\* Both players have captured
C15_BothTalliesFilled ==
    /\ Len(captured_pieces[white]) >= 1
    /\ Len(captured_pieces[black]) >= 1
    /\ Conserved(board, captured_pieces)

\* Committed moves so far
Plies == step + free_plies

\* The step commits a move
Committed == Plies' # Plies

\* The colour to move after n committed moves when the players alternate and
\* white starts
ToMove(n) == IF n % 2 = 0 THEN white ELSE black

\* Some player is in check with no move of the king after the step
MatedAfter ==
    \E k \in 1..Len(players) :
       /\ is_in_check(board', players'[k].king_position)
       /\ get_legal_moves(board', players'[k].king_position,
                          players'[k]).legal_moves = <<>>

\* C16: white takes the first turn and the players alternate, one committed
\* move per turn; is_check_mate is evaluated after every committed move; once
\* it has returned true run_chess returns and neither player takes a further
\* turn.
C16_TurnOrder ==
    [][/\ pc = "take_turn"
       /\ ~check_mate
       /\ players[turn].color = ToMove(Plies)
       /\ IF Committed
          THEN /\ Plies' = Plies + 1
               /\ get(board, old_position').color = players[turn].color
               /\ get(board', new_position').color = players[turn].color
               /\ get(board', old_position') = Nothing
               /\ check_mate' = MatedAfter
               /\ pc' = IF check_mate' THEN "done" ELSE "take_turn"
               /\ ~check_mate' => players[turn'].color = ToMove(Plies')
          ELSE /\ turn' = turn
               /\ pc' = pc
               /\ check_mate' = check_mate]_vars

\* run_chess has returned after black's second move
C16_BlackEndsTheGame ==
    /\ pc = "done"
    /\ check_mate
    /\ Plies = 4
    /\ get(board, new_position).color = black

\* The players whose check_mate flag is set
Flagged == {k \in 1..Len(players) : players[k].check_mate}

\* The colour of the piece the last committed move moved
LastMover == get(board, new_position).color

\* C17: when run_chess has returned after a game from the standard start
\* exactly one player is flagged, the one who did not make the last committed
\* move; while the game goes on no player is flagged.
C17_LoserIsFlagged ==
    /\ pc = "done" =>
          /\ Cardinality(Flagged) = 1
          /\ \A k \in Flagged : players[k].color # LastMover
    /\ pc = "take_turn" => Flagged = {}

\* run_chess has returned after a move of white
C17_WhiteWins ==
    /\ pc = "done"
    /\ LastMover = white
    /\ Flagged = {2}
    /\ players[2].color = black

\* The own pieces of the player of the turn that have a legal move
Movable ==
    {s \in OwnSquares(board, players[turn].color) :
        get_legal_moves(board, s, players[turn]).legal_moves # <<>>}

\* C18: in every state of a game from the standard start in which
\* is_check_mate has not returned true, the player of the turn has a piece
\* with a non-empty get_legal_moves result.
C18_NoDeadEnd == pc = "take_turn" => Movable # {}

\* The game goes on and the player of the turn has no piece that can move
C18_Stalemate == pc = "take_turn" /\ ~check_mate /\ Movable = {}

\* The direction values the k-th piece object has in a store
DirectionsOf(store, k) == Deref(store, piece_objects[k].directions)

\* Every piece constructed on a store has the directions of its class
Pristine(store) ==
    \A kind \in Kinds, color \in {white, black} :
       Deref(NewPiece(store, kind, color).store,
             NewPiece(store, kind, color).piece.directions)
          = Construct(kind, color).directions

\* C19: constructing a piece and changing the reach of a pawn change the
\* directions of no other piece: a pawn's change_reach(1) gives that pawn
\* reach 1 and leaves the vectors and reach of every other piece as they
\* were, a newly constructed piece has the directions of its class (white
\* unmirrored, sliders with reach 0, pawns with the two-square advance), and
\* so has every piece constructed afterwards.
C19_DirectionsNotShared ==
    [][/\ \A j \in 1..Len(piece_objects) :
             \/ DirectionsOf(direction_objects', j)
                   = DirectionsOf(direction_objects, j)
             \/ /\ piece_objects' = piece_objects
                /\ piece_objects[j].kind = "Pawn"
                /\ DirectionsOf(direction_objects', j)
                      = SetReach(DirectionsOf(direction_objects, j), 1)
                /\ \A i \in 1..Len(piece_objects) :
                      i # j => DirectionsOf(direction_objects', i)
                                  = DirectionsOf(direction_objects, i)
       /\ Pristine(direction_objects')]_vars

\* A white pawn has had its reach reduced and a black pawn made before it
\* still has its two-square advance
C19_MovedPawnBesideUnmovedPawn ==
    /\ Len(piece_objects) = 2
    /\ piece_objects[1] # piece_objects[2]
    /\ piece_objects[1].kind = "Pawn" /\ piece_objects[1].color = black
    /\ piece_objects[2].kind = "Pawn" /\ piece_objects[2].color = white
    /\ DirectionsOf(direction_objects, 1) = Pawn(black).directions
    /\ DirectionsOf(direction_objects, 2)
          = SetReach(Pawn(white).directions, 1)

\* The directions the pieces of the six kinds own: as constructed, and a
\* pawn's after change_reach(1)
OwnedDirections ==
    UNION {Range(Construct(kind, color).directions)
           \cup Range(change_reach(Construct(kind, color), 1).directions) :
              kind \in Kinds, color \in {white, black}}

\* The first n squares from s along d are on the board and empty
FreeRun(b, s, d, n) ==
    \A k \in 1..n :
       index_within_board(Along(s, d, k)) /\ get(b, Along(s, d, k)) = Nothing

\* A ray from s along d that reads n squares ends as the stop rule says: the
\* squares before the n-th are free, and the n-th holds a piece, or it is
\* free too and the reach is used up or the next square is off the board
RayEnd(b, s, d, n) ==
    /\ FreeRun(b, s, d, n - 1)
    /\ d.reach # 0 => n <= d.reach
    /\ IF n >= 1 /\ ~FreeRun(b, s, d, n)
       THEN index_within_board(Along(s, d, n))
       ELSE \/ d.reach # 0 /\ n = d.reach
            \/ ~index_within_board(Along(s, d, n + 1))

\* C20: on every board, from every position of the board and along every
\* direction a piece of the six kinds of either colour owns, the loop of
\* follow_direction returns after reading at most 7 squares: when the reach
\* is used up, when the next square is off the board, or at the first piece;
\* the ray it returns has at most that many points.
C20_RayEndsWithinSeven ==
    pc \in {"take_turn", "placed"} =>
       \A s \in Squares, d \in OwnedDirections :
          \E n \in {follow_count(board, s, d, d.reach, 1)} :
             /\ d.x # 0 \/ d.y # 0
             /\ n <= 7
             /\ RayEnd(board, s, d, n)
             /\ \A color \in {white, black} :
                   Len(follow_direction(board, s, d, color, d.reach,
                                        d.is_capture_direction,
                                        d.must_capture)) <= n

\* The board has rays of every length up to 7, one that runs over seven empty
\* squares off the board, one that meets a piece on its seventh square, and a
\* capture-only direction over an empty square
C20_LongRays ==
    /\ pc = "placed"
    /\ \A n \in 0..7 :
          \E s \in Squares, d \in OwnedDirections :
             follow_count(board, s, d, d.reach, 1) = n
    /\ \E s \in Squares, d \in OwnedDirections :
          /\ FreeRun(board, s, d, 7)
          /\ follow_count(board, s, d, d.reach, 1) = 7
    /\ \E s \in Squares, d \in OwnedDirections :
          /\ FreeRun(board, s, d, 6)
          /\ get(board, Along(s, d, 7)) # Nothing
          /\ d.reach = 0
    /\ \E s \in Squares, d \in OwnedDirections :
          /\ d.must_capture
          /\ FreeRun(board, s, d, 1)
          /\ follow_direction(board, s, d, white, d.reach,
                              d.is_capture_direction, d.must_capture) = <<>>

====
